---- MODULE Spec2Model ----
(***************************************************************************)
(* A model of xstream: the stream splitter of src/src/lib.rs, the process  *)
(* pools of src/src/limit.rs, src/src/rot.rs and src/src/pool.rs, and the  *)
(* binary of src/src/main.rs.                                              *)
(*                                                                         *)
(* A child process is a position in the process table ptab (its spawn      *)
(* order).  A pool tracks children by these positions.                     *)
(***************************************************************************)
EXTENDS Integers, Sequences, FiniteSets, TLC

VARIABLES
    input,        \* the whole input, as the bytes the source will deliver
    chunks,       \* the input as the source's reads deliver it, chunk by chunk
    rest,         \* the chunks the source has not read yet
    buf,          \* the unconsumed bytes of the source's buffer
    delim,        \* the delimiter
    write_delim,  \* Option: [some |-> BOOLEAN, v |-> bytes]
    pc,           \* position in xstream / main
    result,       \* the value returned by xstream / main's outcome
    cur,          \* the child returned by the last successful get
    out,          \* every byte written, in write order: [p |-> child, b |-> byte]
    hits,         \* input offsets (0-based) of the delimiter matches found
    gets,         \* calls of pool.get / spawn_child so far
    pool,         \* [kind, procs, max_procs, ind]
    ptab,         \* the children ever spawned, in spawn order (see NewChild)
    dropped,      \* the pool has been dropped
    calls,        \* pool operations called so far (pool specification)
    getLog,       \* the child returned by each successful get, in call order
    last,         \* the last pool operation: [op, res, ret]
    twin          \* a Limiting given the same calls as pool: [pool, pt, last, fate]

vars == <<input, chunks, rest, buf, delim, write_delim, pc, result, cur, out, hits,
          gets, pool, ptab, dropped, calls, getLog, last, twin>>

-----------------------------------------------------------------------------
(* Bounds *)

MaxLen == 3
MaxDelim == 2
MaxBound == 2
MaxCode == 1
MaxCalls == 5

\* two byte values are enough to tell a delimiter byte from another byte
Bytes == {1, 2}

-----------------------------------------------------------------------------
(* Sequences *)

Min(a, b) == IF a < b THEN a ELSE b

Front(s) == SubSeq(s, 1, Len(s) - 1)

Last(s) == s[Len(s)]

Range(s) == {s[i] : i \in 1..Len(s)}

Drop(s, n) == SubSeq(s, n + 1, Len(s))

Take(s, n) == SubSeq(s, 1, n)

SeqsUpTo(S, lo, hi) == UNION {[1..n -> S] : n \in lo..hi}

RECURSIVE Flatten(_)
Flatten(ss) == IF ss = <<>> THEN <<>> ELSE Head(ss) \o Flatten(Tail(ss))

\* every way to cut s into non-empty chunks
RECURSIVE Splits(_)
Splits(s) ==
    IF s = <<>> THEN {<<>>}
    ELSE UNION {{<<Take(s, k)>> \o r : r \in Splits(Drop(s, k))} : k \in 1..Len(s)}

-----------------------------------------------------------------------------
(* Results and exit statuses *)

Ok == [kind |-> "Ok", code |-> 0]

Err(kind) == [kind |-> kind, code |-> 0]

Running == [k |-> "run", c |-> 0]

Signalled == [k |-> "sig", c |-> 0]

Exited(c) == [k |-> "code", c |-> c]

WaitFailed == [k |-> "err", c |-> 0]

ExitStatuses == {Exited(c) : c \in 0..MaxCode} \cup {Signalled}

WaitOutcomes == ExitStatuses \cup {WaitFailed}

FailOutcomes == WaitOutcomes \ {Exited(0)}

\* a child as spawned: st, its exit status once a wait has collected it; waits
\* and kills, the calls of wait and kill on it; kerr, a kill reported an error;
\* kbw, the kills made before its last wait; late, the calls of kill, wait and
\* try_wait made after its status was collected; stdin, its stdin is open
NewChild ==
    [st |-> Running, waits |-> 0, kills |-> 0, kerr |-> FALSE, kbw |-> 0,
     late |-> 0, stdin |-> TRUE]

-----------------------------------------------------------------------------
(* Child processes (std::process::Child as the pools use it) *)

Late(c) == IF c.st # Running THEN c.late + 1 ELSE c.late

\* Child::wait: closes stdin, then blocks for the exit status; the status of a
\* child that was already reaped is cached and returned again.  o is what the
\* operating system answers when the child has not been reaped yet.
ChildWait(pt, p, o) ==
    LET c == pt[p]
        st == IF c.st # Running THEN c.st ELSE o
        kept == IF st = WaitFailed THEN c.st ELSE st
    IN [pt |-> [pt EXCEPT ![p] = [c EXCEPT !.st = kept, !.waits = c.waits + 1,
                                          !.kbw = c.kills, !.late = Late(c),
                                          !.stdin = FALSE]],
        st |-> st]

\* Child::try_wait: as wait, but leaves stdin open and answers Running (None)
\* when the child has not exited.
ChildTryWait(pt, p, o) ==
    LET c == pt[p]
        st == IF c.st # Running THEN c.st ELSE o
        kept == IF st = WaitFailed THEN c.st ELSE st
    IN [pt |-> [pt EXCEPT ![p] = [c EXCEPT !.st = kept, !.late = Late(c)]],
        st |-> st]

\* Child::kill: the child is signalled; ok is whether the call reports success
ChildKill(pt, p, ok) ==
    [pt EXCEPT ![p] = [@ EXCEPT !.kills = @ + 1, !.kerr = @ \/ ~ok, !.late = Late(pt[p])]]

parse_code(status) ==
    IF status.k = "code"
    THEN IF status.c = 0 THEN Ok ELSE [kind |-> "NonZero", code |-> status.c]
    ELSE Err("Signal")

wait_proc(pt, p, o) ==
    LET w == ChildWait(pt, p, o)
    IN [pt |-> w.pt, res |-> IF w.st = WaitFailed THEN Err("Wait") ELSE parse_code(w.st)]

\* the answer of the i-th wait of a loop whose first k waits find exit code 0,
\* whose next one finds fo, and whose later ones find a signalled child
NthOutcome(i, k, fo) == IF i <= k THEN Exited(0) ELSE IF i = k + 1 THEN fo ELSE Signalled

-----------------------------------------------------------------------------
(* The waits and the cleanup of main.rs *)

\* wait_proc of main.rs: the exit code is not kept in the error
main_wait_proc(pt, p, o) ==
    LET w == ChildWait(pt, p, o)
    IN [pt |-> w.pt,
        res |-> IF w.st = WaitFailed THEN Err("Wait")
                ELSE IF w.st.k = "sig" THEN Err("Signal")
                ELSE IF w.st.c = 0 THEN Ok ELSE Err("NonZero")]

\* children.iter_mut().map(Child::kill).collect::<Result<(), _>>(): collect
\* asks for no further item once one is an error.  kf: the kill that reports an
\* error (0: none)
RECURSIVE CollectKill(_, _, _, _)
CollectKill(procs, pt, i, kf) ==
    IF i > Len(procs) THEN pt
    ELSE IF i = kf THEN ChildKill(pt, procs[i], FALSE)
    ELSE CollectKill(procs, ChildKill(pt, procs[i], TRUE), i + 1, kf)

\* children.iter_mut().map(wait_proc).collect::<Result<(), _>>()
RECURSIVE CollectWait(_, _, _, _, _)
CollectWait(procs, pt, i, k, fo) ==
    IF i > Len(procs) THEN [pt |-> pt, res |-> Ok]
    ELSE LET w == main_wait_proc(pt, procs[i], NthOutcome(i, k, fo))
         IN IF w.res # Ok THEN w ELSE CollectWait(procs, w.pt, i + 1, k, fo)

cleanup(procs, pt, kf, k, fo) ==
    CollectWait(procs, CollectKill(procs, pt, 1, kf), 1, k, fo).pt

-----------------------------------------------------------------------------
(* Limiting (limit.rs) *)

NewPool(kind, max_procs) == [kind |-> kind, procs |-> <<>>, max_procs |-> max_procs, ind |-> 0]

Ret(pl, pt, res, ret) == [pool |-> pl, pt |-> pt, res |-> res, ret |-> ret]

\* a slip: the queue counts as full only when it is beyond the bound
LimitingGetOffByOne(pl, pt, wo, sok) ==
    LET full == pl.max_procs # 0 /\ Len(pl.procs) > pl.max_procs
        w == IF full THEN wait_proc(pt, Head(pl.procs), wo) ELSE [pt |-> pt, res |-> Ok]
        pl1 == IF full THEN [pl EXCEPT !.procs = Tail(pl.procs)] ELSE pl
        new == Len(w.pt) + 1
    IN IF w.res # Ok THEN Ret(pl1, w.pt, w.res, 0)
       ELSE IF ~sok THEN Ret(pl1, w.pt, Err("Spawn"), 0)
       ELSE Ret([pl1 EXCEPT !.procs = Append(pl1.procs, new)],
                Append(w.pt, NewChild), Ok, new)

\* a slip: a bound of 0 is not told apart, and the oldest child is evicted
LimitingGetNoZero(pl, pt, wo, sok) ==
    LET full == Len(pl.procs) >= pl.max_procs /\ pl.procs # <<>>
        w == IF full THEN wait_proc(pt, Head(pl.procs), wo) ELSE [pt |-> pt, res |-> Ok]
        pl1 == IF full THEN [pl EXCEPT !.procs = Tail(pl.procs)] ELSE pl
        new == Len(w.pt) + 1
    IN IF w.res # Ok THEN Ret(pl1, w.pt, w.res, 0)
       ELSE IF ~sok THEN Ret(pl1, w.pt, Err("Spawn"), 0)
       ELSE Ret([pl1 EXCEPT !.procs = Append(pl1.procs, new)],
                Append(w.pt, NewChild), Ok, new)

\* a slip: the child evicted is the newest one
LimitingGetNewest(pl, pt, wo, sok) ==
    LET full == pl.max_procs # 0 /\ Len(pl.procs) = pl.max_procs
        w == IF full THEN wait_proc(pt, Last(pl.procs), wo) ELSE [pt |-> pt, res |-> Ok]
        pl1 == IF full THEN [pl EXCEPT !.procs = Front(pl.procs)] ELSE pl
        new == Len(w.pt) + 1
    IN IF w.res # Ok THEN Ret(pl1, w.pt, w.res, 0)
       ELSE IF ~sok THEN Ret(pl1, w.pt, Err("Spawn"), 0)
       ELSE Ret([pl1 EXCEPT !.procs = Append(pl1.procs, new)],
                Append(w.pt, NewChild), Ok, new)

\* a slip: the evicted child is waited on and what the wait answers is dropped
LimitingGetIgnoreExit(pl, pt, wo, sok) ==
    LET full == pl.max_procs # 0 /\ Len(pl.procs) = pl.max_procs
        w == IF full THEN wait_proc(pt, Head(pl.procs), wo) ELSE [pt |-> pt, res |-> Ok]
        pl1 == IF full THEN [pl EXCEPT !.procs = Tail(pl.procs)] ELSE pl
        new == Len(w.pt) + 1
    IN IF ~sok THEN Ret(pl1, w.pt, Err("Spawn"), 0)
       ELSE Ret([pl1 EXCEPT !.procs = Append(pl1.procs, new)],
                Append(w.pt, NewChild), Ok, new)

\* wo: what the wait on the evicted child answers; sok: the spawn succeeds
LimitingGet(pl, pt, wo, sok) ==
    LET full == pl.max_procs # 0 /\ Len(pl.procs) = pl.max_procs
        w == IF full THEN wait_proc(pt, Head(pl.procs), wo) ELSE [pt |-> pt, res |-> Ok]
        pl1 == IF full THEN [pl EXCEPT !.procs = Tail(pl.procs)] ELSE pl
        new == Len(w.pt) + 1
    IN IF w.res # Ok THEN Ret(pl1, w.pt, w.res, 0)
       ELSE IF ~sok THEN Ret(pl1, w.pt, Err("Spawn"), 0)
       ELSE Ret([pl1 EXCEPT !.procs = Append(pl1.procs, new)],
                Append(w.pt, NewChild), Ok, new)

\* pops from the back and waits, until a wait does not succeed; the first k
\* waits find exit code 0 and the next finds fo
RECURSIVE JoinBack(_, _, _, _, _)
JoinBack(pl, pt, i, k, fo) ==
    IF pl.procs = <<>> THEN Ret(pl, pt, Ok, 0)
    ELSE LET w == wait_proc(pt, Last(pl.procs), NthOutcome(i, k, fo))
             pl1 == [pl EXCEPT !.procs = Front(pl.procs)]
         IN IF w.res # Ok THEN Ret(pl1, w.pt, w.res, 0)
            ELSE JoinBack(pl1, w.pt, i + 1, k, fo)

\* a slip: join as a drain of the queue, which forgets the children it has not
\* reached when a wait does not succeed
LimitingJoinDrain(pl, pt, k, fo) ==
    LET j == JoinBack(pl, pt, 1, k, fo)
    IN IF j.res # Ok THEN Ret([j.pool EXCEPT !.procs = <<>>], j.pt, j.res, 0) ELSE j

LimitingJoin(pl, pt, k, fo) == JoinBack(pl, pt, 1, k, fo)

\* for proc in &mut self.procs { let _ = proc.kill(); }
\* kf: the kill that reports an error (0: none)
RECURSIVE KillAll(_, _, _, _)
KillAll(procs, pt, i, kf) ==
    IF i > Len(procs) THEN pt
    ELSE KillAll(procs, ChildKill(pt, procs[i], i # kf), i + 1, kf)

\* for proc in &mut self.procs { let _ = proc.wait(); }
RECURSIVE WaitAll(_, _, _, _, _)
WaitAll(procs, pt, i, k, fo) ==
    IF i > Len(procs) THEN pt
    ELSE WaitAll(procs, ChildWait(pt, procs[i], NthOutcome(i, k, fo)).pt, i + 1, k, fo)

\* a slip: the two loops as iterators collected into a Result, which stop at
\* the first error
PoolDropUntilErr(pl, pt, kf, k, fo) == cleanup(pl.procs, pt, kf, k, fo)

\* Drop: kills every tracked child, then waits on every tracked child; every
\* result is thrown away
PoolDrop(pl, pt, kf, k, fo) == WaitAll(pl.procs, KillAll(pl.procs, pt, 1, kf), 1, k, fo)

-----------------------------------------------------------------------------
(* Rotating (rot.rs) *)

\* a slip: the cursor is never advanced
RotatingGetNoAdvance(pl, pt, sok) ==
    LET new == Len(pt) + 1
        grow == pl.max_procs = 0 \/ Len(pl.procs) < pl.max_procs
        pl1 == IF grow THEN [pl EXCEPT !.procs = Append(pl.procs, new)] ELSE pl
        pt1 == IF grow THEN Append(pt, NewChild) ELSE pt
    IN IF grow /\ ~sok THEN Ret(pl, pt, Err("Spawn"), 0)
       ELSE IF pl.max_procs = 0 THEN Ret(pl1, pt1, Ok, Last(pl1.procs))
       ELSE Ret(pl1, pt1, Ok, pl1.procs[pl.ind + 1])

\* sok: the spawn succeeds.  An index out of range panics.
RotatingGet(pl, pt, sok) ==
    LET new == Len(pt) + 1
        grow == pl.max_procs = 0 \/ Len(pl.procs) < pl.max_procs
        pl1 == IF grow THEN [pl EXCEPT !.procs = Append(pl.procs, new)] ELSE pl
        pt1 == IF grow THEN Append(pt, NewChild) ELSE pt
    IN IF grow /\ ~sok THEN Ret(pl, pt, Err("Spawn"), 0)
       ELSE IF pl.max_procs = 0 THEN Ret(pl1, pt1, Ok, Last(pl1.procs))
       ELSE IF pl.ind + 1 > Len(pl1.procs) THEN Ret(pl1, pt1, Err("Panic"), 0)
       ELSE Ret([pl1 EXCEPT !.ind = (pl.ind + 1) % pl.max_procs], pt1, Ok,
                pl1.procs[pl.ind + 1])

\* a slip: the child is waited on where it is, and popped only when it succeeded
RotatingJoinKeep(pl, pt, k, fo) ==
    LET j == JoinBack(pl, pt, 1, k, fo)
    IN IF j.res # Ok
       THEN Ret([j.pool EXCEPT !.procs = Take(pl.procs, Len(j.pool.procs) + 1)],
                j.pt, j.res, 0)
       ELSE j

RotatingJoin(pl, pt, k, fo) == JoinBack(pl, pt, 1, k, fo)

-----------------------------------------------------------------------------
(* Pool (pool.rs) *)

\* the loop that cleans up the finished children at the front of the queue
RECURSIVE ReapFront(_, _, _, _, _)
ReapFront(pl, pt, i, k, to) ==
    IF pl.procs = <<>> THEN Ret(pl, pt, Ok, 0)
    ELSE LET t == ChildTryWait(pt, Head(pl.procs), IF i <= k THEN Exited(0) ELSE to)
         IN IF t.st = WaitFailed THEN Ret(pl, t.pt, Err("Wait"), 0)
            ELSE IF t.st = Running THEN Ret(pl, t.pt, Ok, 0)
            ELSE IF parse_code(t.st) # Ok THEN Ret(pl, t.pt, parse_code(t.st), 0)
            ELSE ReapFront([pl EXCEPT !.procs = Tail(pl.procs)], t.pt, i + 1, k, to)

\* k, to: the first k polled children have exited with 0, the next answers to;
\* wo: what the blocking wait answers; sok: the spawn succeeds
PoolSpawn(pl, pt, k, to, wo, sok) ==
    LET r == ReapFront(pl, pt, 1, k, to)
        full == Len(r.pool.procs) = pl.max_procs /\ r.pool.procs # <<>>
        w == IF full THEN wait_proc(r.pt, Head(r.pool.procs), wo)
             ELSE [pt |-> r.pt, res |-> Ok]
        pl1 == IF full THEN [r.pool EXCEPT !.procs = Tail(r.pool.procs)] ELSE r.pool
        new == Len(w.pt) + 1
    IN IF r.res # Ok THEN r
       ELSE IF w.res # Ok THEN Ret(pl1, w.pt, w.res, 0)
       ELSE IF ~sok THEN Ret(pl1, w.pt, Err("Spawn"), 0)
       ELSE Ret([pl1 EXCEPT !.procs = Append(pl1.procs, new)],
                Append(w.pt, NewChild), Ok, new)

RECURSIVE JoinFront(_, _, _, _, _)
JoinFront(pl, pt, i, k, fo) ==
    IF pl.procs = <<>> THEN Ret(pl, pt, Ok, 0)
    ELSE LET w == wait_proc(pt, Head(pl.procs), NthOutcome(i, k, fo))
             pl1 == [pl EXCEPT !.procs = Tail(pl.procs)]
         IN IF w.res # Ok THEN Ret(pl1, w.pt, w.res, 0)
            ELSE JoinFront(pl1, w.pt, i + 1, k, fo)

PoolJoin(pl, pt, k, fo) == JoinFront(pl, pt, 1, k, fo)

-----------------------------------------------------------------------------
(* The buffered source (BufRead) *)

\* fill_buf: the unconsumed bytes of the buffer; only an empty buffer is
\* refilled, by a read that delivers the next chunk of the source (no byte at
\* the end of the input)
fill_buf(b, r) ==
    IF b # <<>> THEN [buf |-> b, rest |-> r]
    ELSE IF r = <<>> THEN [buf |-> <<>>, rest |-> r]
    ELSE [buf |-> Head(r), rest |-> Tail(r)]

consume(b, n) == Drop(b, n)

-----------------------------------------------------------------------------
(* xstream (lib.rs) *)

NoPos == 0 - 1

\* buf.windows(d.len()).position(|w| w == d), 0-based; NoPos when there is none
position(b, d) ==
    LET at == {i \in 0..(Len(b) - Len(d)) : SubSeq(b, i + 1, i + Len(d)) = d}
    IN IF at = {} THEN NoPos ELSE CHOOSE i \in at : \A j \in at : i <= j

\* a slip: bytes too few to hold the delimiter are kept for the next read
ScanKeepShort(b, d) ==
    LET pos == position(b, d)
    IN IF pos = NoPos
       THEN [consume |-> IF Len(b) < Len(d) THEN 0 ELSE Len(b) - Len(d) + 1,
             hit |-> FALSE]
       ELSE [consume |-> pos + Len(d), hit |-> TRUE]

\* (consume, hit_delim) for the buffered bytes b
Scan(b, d) ==
    LET pos == position(b, d)
    IN IF pos = NoPos
       THEN [consume |-> IF Len(b) < Len(d) THEN Len(b) ELSE Len(b) - Len(d) + 1,
             hit |-> FALSE]
       ELSE [consume |-> pos + Len(d), hit |-> TRUE]

\* a slip: the delimiter is cut off at every match, write-delimiter or not
WritesStripAlways(b, s, d, wd) ==
    IF s.hit THEN <<Take(b, s.consume - Len(d)), wd.v>> ELSE <<Take(b, s.consume)>>

\* a slip: the write-delimiter is written after the matched delimiter
WritesKeepDelim(b, s, d, wd) ==
    IF wd.some /\ s.hit THEN <<Take(b, s.consume), wd.v>> ELSE <<Take(b, s.consume)>>

\* the bytes handed to write_all in one iteration, as the list of the writes
Writes(b, s, d, wd) ==
    IF wd.some /\ s.hit
    THEN <<Take(b, s.consume - Len(d)), wd.v>>
    ELSE <<Take(b, s.consume)>>

\* a slip: the handle of the first child is kept for every write
TaggedFirst(p, bytes) == [i \in 1..Len(bytes) |-> [p |-> Min(p, 1), b |-> bytes[i]]]

Tagged(p, bytes) == [i \in 1..Len(bytes) |-> [p |-> p, b |-> bytes[i]]]

Consumed == Len(input) - Len(buf) - Len(Flatten(rest))

PoolGet(pl, pt, wo, sok) ==
    IF pl.kind = "Limiting" THEN LimitingGet(pl, pt, wo, sok) ELSE RotatingGet(pl, pt, sok)

PoolJoinOf(pl, pt, k, fo) ==
    IF pl.kind = "Limiting" THEN LimitingJoin(pl, pt, k, fo)
    ELSE IF pl.kind = "Rotating" THEN RotatingJoin(pl, pt, k, fo)
    ELSE PoolJoin(pl, pt, k, fo)

\* a slip: a first child is acquired whether or not there is input
MoreInputOrFirst == fill_buf(buf, rest).buf # <<>> \/ gets = 0

\* line 55: !in_handle.fill_buf()?.is_empty()
MoreInput == fill_buf(buf, rest).buf # <<>>

\* a slip: the error is noted and the loop goes on
ReturnAndGoOn(r) ==
    /\ pc' = pc
    /\ result' = r

Return(r) ==
    /\ pc' = "done"
    /\ result' = r

\* lines 55-57: the input is not exhausted; get a child and its stdin
XOuter ==
    /\ pc = "outer"
    /\ MoreInput
    /\ \E wo \in WaitOutcomes, sok \in BOOLEAN :
         LET f == fill_buf(buf, rest)
             g == PoolGet(pool, ptab, wo, sok)
         IN /\ buf' = f.buf
            /\ rest' = f.rest
            /\ pool' = g.pool
            /\ ptab' = g.pt
            /\ gets' = gets + 1
            /\ last' = [op |-> "get", res |-> g.res, ret |-> g.ret]
            /\ IF g.res # Ok THEN Return(g.res) /\ UNCHANGED cur
               ELSE IF ~g.pt[g.ret].stdin THEN Return(Err("StdinNotPiped")) /\ cur' = g.ret
               ELSE pc' = "inner" /\ cur' = g.ret /\ UNCHANGED result
    /\ UNCHANGED <<input, chunks, delim, write_delim, out, hits, dropped, calls, getLog, twin>>

\* lines 55 and 60: fill_buf has to read, and the read fails
XReadErr ==
    /\ pc \in {"outer", "inner"}
    /\ buf = <<>>
    /\ Return(Err("Input"))
    /\ UNCHANGED <<input, chunks, rest, buf, delim, write_delim, cur, out, hits, gets,
                   pool, ptab, dropped, calls, getLog, twin, last>>

\* lines 59-88: one iteration of the inner loop, every write succeeding
XInner ==
    /\ pc = "inner"
    /\ LET f == fill_buf(buf, rest)
           s == Scan(f.buf, delim)
       IN /\ out' = out \o Tagged(cur, Flatten(Writes(f.buf, s, delim, write_delim)))
          /\ buf' = consume(f.buf, s.consume)
          /\ rest' = f.rest
          /\ hits' = IF s.hit THEN Append(hits, Consumed + s.consume - Len(delim)) ELSE hits
          /\ pc' = IF ~s.hit /\ s.consume > 0 THEN "inner" ELSE "outer"
    /\ UNCHANGED <<input, chunks, delim, write_delim, result, cur, gets,
                   pool, ptab, dropped, calls, getLog, twin, last>>

\* lines 76-85: the w-th write_all of the iteration fails after n of its bytes
XWriteErr ==
    /\ pc = "inner"
    /\ LET f == fill_buf(buf, rest)
           ws == Writes(f.buf, Scan(f.buf, delim), delim, write_delim)
       IN \E w \in 1..Len(ws) : \E m \in 0..(Len(ws[w]) - 1) :
            /\ out' = out \o Tagged(cur, Flatten(Take(ws, w - 1)) \o Take(ws[w], m))
            /\ buf' = f.buf
            /\ rest' = f.rest
    /\ Return(Err("Output"))
    /\ UNCHANGED <<input, chunks, delim, write_delim, cur, hits, gets,
                   pool, ptab, dropped, calls, getLog, twin, last>>

\* lines 55 and 91: the input is exhausted; join the pool and return
XJoin ==
    /\ pc = "outer"
    /\ ~MoreInput
    /\ \E k \in 0..Len(pool.procs), fo \in FailOutcomes :
         LET j == PoolJoinOf(pool, ptab, k, fo)
         IN /\ pool' = j.pool
            /\ ptab' = j.pt
            /\ last' = [op |-> "join", res |-> j.res, ret |-> 0]
            /\ Return(j.res)
    /\ UNCHANGED <<input, chunks, rest, buf, delim, write_delim, cur, out, hits, gets,
                   dropped, calls, getLog, twin>>

NoOp == [op |-> "new", res |-> Ok, ret |-> 0]

None == [some |-> FALSE, v |-> <<>>]

Some(v) == [some |-> TRUE, v |-> v]

WriteDelims == {None, Some(<<>>), Some(<<0>>)}

\* the twin of a pool of max_procs n, before any call
NewTwin(n) == [pool |-> NewPool("Limiting", n), pt |-> <<>>, last |-> NoOp, fate |-> <<>>]

Init ==
    /\ input \in SeqsUpTo(Bytes, 0, MaxLen)
    /\ chunks \in Splits(input)
    /\ rest = chunks
    /\ buf = <<>>
    /\ delim \in SeqsUpTo(Bytes, 1, MaxDelim)
    /\ write_delim \in WriteDelims
    /\ pc = "outer"
    /\ result = Ok
    /\ cur = 0
    /\ out = <<>>
    /\ hits = <<>>
    /\ gets = 0
    /\ pool \in {NewPool(kd, n) : kd \in {"Limiting", "Rotating"}, n \in 0..MaxBound}
    /\ ptab = <<>>
    /\ dropped = FALSE
    /\ calls = 0
    /\ getLog = <<>>
    /\ last = NoOp
    /\ twin = NewTwin(0)

Next == XOuter \/ XReadErr \/ XInner \/ XWriteErr \/ XJoin

Spec == Init /\ [][Next]_vars

\* xstream is a sequential program: while it has not returned, its next
\* statement is executed
LiveSpec == Spec /\ WF_vars(Next)

-----------------------------------------------------------------------------
(* main.rs: the binary, with its own queue of children and a one-byte delimiter *)

Pooled == <<dropped, calls, getLog, twin>>

\* what cleanup is given: the kill that fails, the waits that find exit code 0
\* and what the next wait finds
CleanupInputs(procs) == (0..Len(procs)) \X (0..Len(procs)) \X FailOutcomes

\* Err(err) => { cleanup(&mut children); panic!(..) }
Panic(err, procs, pt, ci) ==
    /\ ptab' = cleanup(procs, pt, ci[1], ci[2], ci[3])
    /\ pc' = "panic"
    /\ result' = err

\* lines 57-74 of spawn_child: make room, spawn, take the child's stdin
spawn_child_head(pl, pt, wo, sok) ==
    LET full == Len(pl.procs) = pl.max_procs /\ pl.procs # <<>>
        w == IF full THEN main_wait_proc(pt, Head(pl.procs), wo)
             ELSE [pt |-> pt, res |-> Ok]
        pl1 == IF full THEN [pl EXCEPT !.procs = Tail(pl.procs)] ELSE pl
        new == Len(w.pt) + 1
    IN IF w.res # Ok THEN Ret(pl1, w.pt, w.res, 0)
       ELSE IF ~sok THEN Ret(pl1, w.pt, Err("Spawn"), 0)
       ELSE Ret([pl1 EXCEPT !.procs = Append(pl1.procs, new)],
                Append(w.pt, NewChild), Ok, new)

\* lines 79-86: the bytes before the first delimiter byte, and whether there is one
main_split(b, d) ==
    LET pos == position(b, d)
    IN [dump |-> IF pos = NoPos THEN b ELSE Take(b, pos), hit |-> pos # NoPos]

MSpawn ==
    /\ pc = "spawn"
    /\ \E wo \in WaitOutcomes, sok \in BOOLEAN :
         LET g == spawn_child_head(pool, ptab, wo, sok)
         IN /\ pool' = g.pool
            /\ gets' = gets + 1
            /\ last' = [op |-> "get", res |-> g.res, ret |-> g.ret]
            /\ IF g.res = Ok
               THEN ptab' = g.pt /\ cur' = g.ret /\ pc' = "pipe" /\ UNCHANGED result
               ELSE /\ \E ci \in CleanupInputs(g.pool.procs) :
                         Panic(g.res, g.pool.procs, g.pt, ci)
                    /\ UNCHANGED cur
    /\ UNCHANGED <<input, chunks, rest, buf, delim, write_delim, out, hits, Pooled>>

\* lines 77-88: one iteration of the loop of spawn_child, the write succeeding
MPipe ==
    /\ pc = "pipe"
    /\ LET f == fill_buf(buf, rest)
           s == main_split(f.buf, delim)
           size == Len(s.dump)
       IN /\ out' = out \o Tagged(cur, s.dump)
          /\ buf' = consume(f.buf, size + (IF s.hit THEN 1 ELSE 0))
          /\ rest' = f.rest
          /\ hits' = IF s.hit THEN Append(hits, Consumed + size) ELSE hits
          /\ pc' = IF ~s.hit /\ size > 0 THEN "pipe" ELSE IF s.hit THEN "spawn" ELSE "wait"
    /\ UNCHANGED <<input, chunks, delim, write_delim, result, cur, gets,
                   pool, ptab, last, Pooled>>

\* line 78: fill_buf has to read, and the read fails
MReadErr ==
    /\ pc = "pipe"
    /\ buf = <<>>
    /\ \E ci \in CleanupInputs(pool.procs) : Panic(Err("Input"), pool.procs, ptab, ci)
    /\ UNCHANGED <<input, chunks, rest, buf, delim, write_delim, cur, out, hits, gets,
                   pool, last, Pooled>>

\* line 84: write_all fails after m bytes
MWriteErr ==
    /\ pc = "pipe"
    /\ LET f == fill_buf(buf, rest)
           dump == main_split(f.buf, delim).dump
       IN \E m \in 0..(Len(dump) - 1) :
            /\ out' = out \o Tagged(cur, Take(dump, m))
            /\ buf' = f.buf
            /\ rest' = f.rest
    /\ \E ci \in CleanupInputs(pool.procs) : Panic(Err("Output"), pool.procs, ptab, ci)
    /\ UNCHANGED <<input, chunks, delim, write_delim, cur, hits, gets,
                   pool, last, Pooled>>

\* lines 190-197: wait for every child, which stays in the queue
MWait ==
    /\ pc = "wait"
    /\ \E k \in 0..Len(pool.procs), fo \in FailOutcomes :
         LET w == CollectWait(pool.procs, ptab, 1, k, fo)
         IN /\ last' = [op |-> "join", res |-> w.res, ret |-> 0]
            /\ IF w.res = Ok
               THEN ptab' = w.pt /\ pc' = "exit" /\ UNCHANGED result
               ELSE \E ci \in CleanupInputs(pool.procs) :
                        Panic(w.res, pool.procs, w.pt, ci)
    /\ UNCHANGED <<input, chunks, rest, buf, delim, write_delim, cur, out, hits, gets,
                   pool, Pooled>>

MainInit ==
    /\ input \in SeqsUpTo(Bytes, 0, MaxLen)
    /\ chunks \in Splits(input)
    /\ rest = chunks
    /\ buf = <<>>
    /\ delim \in SeqsUpTo(Bytes, 1, 1)
    /\ write_delim = None
    /\ pc = "spawn"
    /\ result = Ok
    /\ cur = 0
    /\ out = <<>>
    /\ hits = <<>>
    /\ gets = 0
    /\ pool \in {NewPool("Main", n) : n \in 0..MaxBound}
    /\ ptab = <<>>
    /\ dropped = FALSE
    /\ calls = 0
    /\ getLog = <<>>
    /\ last = NoOp
    /\ twin = NewTwin(0)

MainNext == MSpawn \/ MPipe \/ MReadErr \/ MWriteErr \/ MWait

MainSpec == MainInit /\ [][MainNext]_vars

-----------------------------------------------------------------------------
(* Properties of xstream *)

OutBytes == [i \in 1..Len(out) |-> out[i].b]

\* xstream has scanned the whole input and returned what join returned
Joined == pc = "done" /\ last.op = "join"

\* the offsets at which a chunk of the source ends and another begins
CutOffsets == {Len(Flatten(Take(chunks, i))) : i \in 1..(Len(chunks) - 1)}

Occurs(p) == SubSeq(input, p + 1, p + Len(delim)) = delim

\* the leftmost non-overlapping occurrences of d in s
RECURSIVE CountOcc(_, _)
CountOcc(s, d) ==
    IF Len(s) < Len(d) THEN 0
    ELSE IF Take(s, Len(d)) = d THEN 1 + CountOcc(Drop(s, Len(d)), d)
    ELSE CountOcc(Tail(s), d)

\* s, which starts at input offset at, with w in place of the delimiter at every
\* offset of hs
RECURSIVE Replaced(_, _, _, _, _)
Replaced(s, at, hs, dlen, w) ==
    IF s = <<>> THEN <<>>
    ELSE IF at \in hs THEN w \o Replaced(Drop(s, dlen), at + dlen, hs, dlen, w)
    ELSE <<Head(s)>> \o Replaced(Tail(s), at + 1, hs, dlen, w)

\* C1: with no write-delimiter, as long as no write has failed the bytes written,
\* in write order, are exactly the input bytes consumed so far, and the whole
\* input once xstream has reached the join.
C1_RoundTrip ==
    (~write_delim.some /\ result.kind # "Output") =>
        /\ OutBytes = Take(input, Consumed)
        /\ Joined => OutBytes = input

C1_Witness ==
    /\ Joined /\ ~write_delim.some
    /\ Len(chunks) >= 2 /\ Len(delim) = 2 /\ Len(hits) = 1 /\ Len(input) = 3
    /\ OutBytes = input

\* C2: an occurrence of the delimiter whose bytes lie in two successive chunks
\* (and that overlaps no other match) is found as a match.
C2_SplitDelimDetected ==
    Joined =>
        \A p \in 0..(Len(input) - Len(delim)) :
            ( /\ Occurs(p)
              /\ \E c \in CutOffsets : p < c /\ c < p + Len(delim)
              /\ \A h \in Range(hits) : h + Len(delim) <= p \/ p + Len(delim) <= h )
            => p \in Range(hits)

\* C3 as claimed, for a non-empty input the source delivers in one read: xstream calls
\* pool.get k+1 times for k non-overlapping occurrences of the delimiter.
C3_AlwaysOneMore ==
    (Joined /\ Len(chunks) = 1) => gets = CountOcc(input, delim) + 1

\* C3, amended: pool.get is called once per match, and once more exactly when
\* input bytes follow the last match (or there is no match and the input is not
\* empty); the matches are the k occurrences when the delimiter is one byte or
\* the source delivers the input in one read.
C3_Segments ==
    Joined =>
        /\ gets = Len(hits) +
             (IF input # <<>> /\ (hits = <<>> \/ Last(hits) + Len(delim) < Len(input))
              THEN 1 ELSE 0)
        /\ (Len(chunks) <= 1 \/ Len(delim) = 1) => Len(hits) = CountOcc(input, delim)

C3_Witness ==
    /\ Joined
    /\ Len(hits) >= 2
    /\ hits[1] = 0
    /\ Last(hits) + Len(delim) = Len(input)
    /\ gets = Len(hits)

\* C4: with a write-delimiter w, as long as no write has failed the bytes written
\* are the input bytes consumed so far with w in place of every matched
\* delimiter.
C4_WriteDelim ==
    (write_delim.some /\ result.kind # "Output") =>
        OutBytes = Replaced(Take(input, Consumed), 0, Range(hits), Len(delim), write_delim.v)

C4_Witness ==
    /\ Joined /\ write_delim = Some(<<0>>)
    /\ Len(delim) = 2 /\ Len(hits) = 1 /\ Len(input) = 3
    /\ 0 \in Range(OutBytes)
    /\ Len(OutBytes) = 2

-----------------------------------------------------------------------------
(* The pools under any sequence of calls, until they are dropped *)

PoolKinds == {"Limiting", "Rotating", "Pool"}

Idle == <<input, chunks, rest, buf, delim, write_delim, result, cur, out, hits, gets, twin>>

\* a call has returned res: a panic unwinds, anything else goes on
After(res) == pc' = IF res.kind = "Panic" THEN "panic" ELSE "pool"

\* Limiting::get, Rotating::get
PGet ==
    /\ pc = "pool" /\ ~dropped /\ calls < MaxCalls
    /\ pool.kind \in {"Limiting", "Rotating"}
    /\ \E wo \in WaitOutcomes, sok \in BOOLEAN :
         LET g == PoolGet(pool, ptab, wo, sok)
         IN /\ pool' = g.pool
            /\ ptab' = g.pt
            /\ last' = [op |-> "get", res |-> g.res, ret |-> g.ret]
            /\ getLog' = IF g.res = Ok THEN Append(getLog, g.ret) ELSE getLog
            /\ After(g.res)
    /\ calls' = calls + 1
    /\ UNCHANGED <<Idle, dropped>>

\* Pool::spawn
PSpawn ==
    /\ pc = "pool" /\ ~dropped /\ calls < MaxCalls
    /\ pool.kind = "Pool"
    /\ \E k \in 0..Len(pool.procs), to \in FailOutcomes \cup {Running},
          wo \in WaitOutcomes, sok \in BOOLEAN :
         LET g == PoolSpawn(pool, ptab, k, to, wo, sok)
         IN /\ pool' = g.pool
            /\ ptab' = g.pt
            /\ last' = [op |-> "get", res |-> g.res, ret |-> g.ret]
            /\ getLog' = IF g.res = Ok THEN Append(getLog, g.ret) ELSE getLog
    /\ calls' = calls + 1
    /\ UNCHANGED <<Idle, pc, dropped>>

\* Limiting::join, Rotating::join, Pool::join
PJoin ==
    /\ pc = "pool" /\ ~dropped /\ calls < MaxCalls
    /\ \E k \in 0..Len(pool.procs), fo \in FailOutcomes :
         LET j == PoolJoinOf(pool, ptab, k, fo)
         IN /\ pool' = j.pool
            /\ ptab' = j.pt
            /\ last' = [op |-> "join", res |-> j.res, ret |-> 0]
    /\ calls' = calls + 1
    /\ UNCHANGED <<Idle, pc, dropped, getLog>>

\* Drop, at any time and also while a panic unwinds
PDrop ==
    /\ pc \in {"pool", "panic"} /\ ~dropped
    /\ \E kf \in 0..Len(pool.procs), k \in 0..Len(pool.procs), fo \in FailOutcomes :
         ptab' = PoolDrop(pool, ptab, kf, k, fo)
    /\ dropped' = TRUE
    /\ last' = [op |-> "drop", res |-> Ok, ret |-> 0]
    /\ UNCHANGED <<Idle, pc, pool, calls, getLog>>

PoolInit ==
    /\ input = <<>>
    /\ chunks = <<>>
    /\ rest = <<>>
    /\ buf = <<>>
    /\ delim = <<1>>
    /\ write_delim = None
    /\ pc = "pool"
    /\ result = Ok
    /\ cur = 0
    /\ out = <<>>
    /\ hits = <<>>
    /\ gets = 0
    /\ pool \in {NewPool(kd, n) : kd \in PoolKinds, n \in 0..MaxBound}
    /\ ptab = <<>>
    /\ dropped = FALSE
    /\ calls = 0
    /\ getLog = <<>>
    /\ last = NoOp
    /\ twin = NewTwin(0)

PoolNext == PGet \/ PSpawn \/ PJoin \/ PDrop

PoolSpec == PoolInit /\ [][PoolNext]_vars

-----------------------------------------------------------------------------
(* A Pool (pool.rs) and a Limiting (limit.rs) of the same bound, given the   *)
(* same calls; the child number p of either exits with the status fate[p]    *)

Reverse(s) == [i \in 1..Len(s) |-> s[Len(s) + 1 - i]]

\* how many children at the head of procs exit with code 0
RECURSIVE Lead0(_, _)
Lead0(procs, fate) ==
    IF procs = <<>> \/ fate[Head(procs)] # Exited(0) THEN 0
    ELSE 1 + Lead0(Tail(procs), fate)

\* what a wait on the i-th child of procs finds, if there is one
FateAt(procs, fate, i) == IF i <= Len(procs) THEN fate[procs[i]] ELSE Signalled

\* Pool::spawn and Limiting::get; f: how the child spawned now will exit; k, fin:
\* how many of the tracked children the polls of Pool::spawn find finished
PairSpawn ==
    /\ pc = "pair" /\ calls < MaxCalls
    /\ \E sok \in BOOLEAN, f \in ExitStatuses, fin \in BOOLEAN,
          k \in 0..Lead0(pool.procs, twin.fate) :
         LET to == IF fin /\ k = Lead0(pool.procs, twin.fate)
                   THEN FateAt(pool.procs, twin.fate, k + 1) ELSE Running
             r == ReapFront(pool, ptab, 1, k, to)
             g == PoolSpawn(pool, ptab, k, to, FateAt(r.pool.procs, twin.fate, 1), sok)
             t == LimitingGet(twin.pool, twin.pt,
                              FateAt(twin.pool.procs, twin.fate, 1), sok)
             born == IF Len(g.pt) > Len(t.pt) THEN Len(g.pt) ELSE Len(t.pt)
         IN /\ pool' = g.pool
            /\ ptab' = g.pt
            /\ last' = [op |-> "get", res |-> g.res, ret |-> g.ret]
            /\ twin' = [pool |-> t.pool, pt |-> t.pt,
                        last |-> [op |-> "get", res |-> t.res, ret |-> t.ret],
                        fate |-> IF born > Len(twin.fate) THEN Append(twin.fate, f)
                                 ELSE twin.fate]
    /\ calls' = calls + 1
    /\ UNCHANGED <<input, chunks, rest, buf, delim, write_delim, pc, result, cur, out,
                   hits, gets, dropped, getLog>>

\* Pool::join and Limiting::join
PairJoin ==
    /\ pc = "pair" /\ calls < MaxCalls
    /\ LET back == Reverse(twin.pool.procs)
           kp == Lead0(pool.procs, twin.fate)
           kt == Lead0(back, twin.fate)
           j == PoolJoin(pool, ptab, kp, FateAt(pool.procs, twin.fate, kp + 1))
           t == LimitingJoin(twin.pool, twin.pt, kt, FateAt(back, twin.fate, kt + 1))
       IN /\ pool' = j.pool
          /\ ptab' = j.pt
          /\ last' = [op |-> "join", res |-> j.res, ret |-> 0]
          /\ twin' = [twin EXCEPT !.pool = t.pool, !.pt = t.pt,
                                  !.last = [op |-> "join", res |-> t.res, ret |-> 0]]
    /\ calls' = calls + 1
    /\ UNCHANGED <<input, chunks, rest, buf, delim, write_delim, pc, result, cur, out,
                   hits, gets, dropped, getLog>>

PairInit ==
    /\ input = <<>>
    /\ chunks = <<>>
    /\ rest = <<>>
    /\ buf = <<>>
    /\ delim = <<1>>
    /\ write_delim = None
    /\ pc = "pair"
    /\ result = Ok
    /\ cur = 0
    /\ out = <<>>
    /\ hits = <<>>
    /\ gets = 0
    /\ \E n \in 0..MaxBound : pool = NewPool("Pool", n) /\ twin = NewTwin(n)
    /\ ptab = <<>>
    /\ dropped = FALSE
    /\ calls = 0
    /\ getLog = <<>>
    /\ last = NoOp

PairNext == PairSpawn \/ PairJoin

PairSpec == PairInit /\ [][PairNext]_vars

-----------------------------------------------------------------------------
(* Properties of the pools *)

Tracked == Range(pool.procs)

Children == 1..Len(ptab)

\* C5: a bounded Limiting or Pool never tracks more than max_procs children.
C5_Bounded ==
    (pool.kind \in {"Limiting", "Pool"} /\ pool.max_procs > 0) =>
        Len(pool.procs) <= pool.max_procs

C5_Witness ==
    /\ pool.kind = "Limiting" /\ pool.max_procs = 2
    /\ Len(pool.procs) = 2 /\ Len(ptab) = 4
    /\ last.op = "get" /\ last.res = Ok
    /\ \E p \in Children : ptab[p].st \in FailOutcomes

\* C6: a bounded Rotating on which only get has been called, every spawn
\* succeeding: the first max_procs calls spawn and return a new child, every
\* later call i (from 0) returns the child of call i mod max_procs, and nothing
\* else is spawned.
C6_RoundRobin ==
    (pool.kind = "Rotating" /\ pool.max_procs > 0 /\ Len(getLog) = calls) =>
        /\ \A i \in 1..Len(getLog) :
             /\ i <= pool.max_procs => getLog[i] = i
             /\ i > pool.max_procs => getLog[i] = getLog[((i - 1) % pool.max_procs) + 1]
        /\ Len(ptab) = Min(calls, pool.max_procs)
        /\ Len(pool.procs) <= pool.max_procs

C6_Witness ==
    /\ pool.kind = "Rotating" /\ pool.max_procs = 2
    /\ calls = 5
    /\ getLog = <<1, 2, 1, 2, 1>>
    /\ Len(ptab) = 2

\* C7 as claimed: with bound 0, after a join every child has been waited on.
C7_JoinWaitsAll ==
    (pool.kind \in {"Limiting", "Rotating"} /\ pool.max_procs = 0 /\ last.op = "join") =>
        \A p \in Children : ptab[p].waits >= 1

\* C7, amended: with bound 0 a get waits on nothing and, when its spawn succeeds,
\* tracks one new child and returns it; a join waits on the tracked children
\* from the newest on and stops at the first that did not succeed: the children
\* it has not reached stay tracked, not waited on, and when it succeeds every
\* child has been waited on.
C7_Step ==
    (pool.kind \in {"Limiting", "Rotating"} /\ pool.max_procs = 0 /\ calls' = calls + 1) =>
        /\ last'.op = "get" =>
             /\ \A p \in Children : ptab'[p] = ptab[p]
             /\ last'.res = Ok =>
                  /\ Len(ptab') = Len(ptab) + 1
                  /\ pool'.procs = Append(pool.procs, Len(ptab'))
                  /\ last'.ret = Len(ptab')
             /\ last'.res # Ok => last'.res = Err("Spawn") /\ pool' = pool /\ ptab' = ptab
        /\ last'.op = "join" =>
             /\ \E n \in 0..Len(pool.procs) :
                  /\ pool'.procs = Take(pool.procs, n)
                  /\ \A i \in 1..Len(pool.procs) :
                       ptab'[pool.procs[i]].waits = IF i > n THEN 1 ELSE 0
                  /\ \A i \in (n + 2)..Len(pool.procs) :
                       ptab'[pool.procs[i]].st = Exited(0)
                  /\ last'.res = Ok <=> n = 0 /\ \A p \in Tracked : ptab'[p].st = Exited(0)
             /\ last'.res = Ok => \A p \in Children : ptab'[p].waits = 1

C7_Unbounded == [][C7_Step]_vars

C7_Witness ==
    /\ pool.kind = "Limiting" /\ pool.max_procs = 0
    /\ last.op = "join" /\ last.res # Ok
    /\ Len(ptab) = 4 /\ Len(pool.procs) = 2
    /\ ptab[4].st = Exited(0)

\* C8: every child a Limiting or Rotating has spawned is tracked or has been
\* waited on, and has been waited on once the pool is dropped.
C8_NoneLost ==
    pool.kind \in {"Limiting", "Rotating"} =>
        \A p \in Children :
            /\ p \in Tracked \/ ptab[p].waits >= 1
            /\ dropped => ptab[p].waits >= 1

C8_Witness ==
    /\ pool.kind = "Rotating" /\ dropped
    /\ Len(ptab) >= 3
    /\ \E p \in Children : p \notin Tracked /\ ptab[p].st \in FailOutcomes
    /\ \E p \in Tracked : ptab[p].kills = 1

\* C9: a dropped pool has killed and then waited on every child it tracked,
\* each one whatever the other kills and waits reported, and reports no error.
C9_DropAll ==
    dropped =>
        /\ \A p \in Tracked :
             ptab[p].kills = 1 /\ ptab[p].waits = 1 /\ ptab[p].kbw = 1 /\ ~ptab[p].stdin
        /\ last = [op |-> "drop", res |-> Ok, ret |-> 0]

C9_Witness ==
    /\ dropped /\ Len(pool.procs) = 3
    /\ ptab[pool.procs[1]].kerr /\ ptab[pool.procs[1]].st = Running
    /\ ptab[pool.procs[3]].kills = 1 /\ ptab[pool.procs[3]].waits = 1

\* the result a wait on child p has given, from what the table keeps of it
Reported(pt, p, res) ==
    IF res.kind = "Wait" THEN pt[p].st = Running
    ELSE pt[p].st # Running /\ parse_code(pt[p].st) = res

\* C11: a join that fails removes at least the child whose failure it reports
\* (so n tracked children allow at most n failing joins in a row), has waited
\* once more on every child it removed and leaves the others tracked and
\* untouched, in their order; a join that succeeds has waited on every tracked
\* child, each one exited with 0, and leaves none tracked.
C11_Step ==
    (calls' = calls + 1 /\ last'.op = "join") =>
        LET gone == Tracked \ Range(pool'.procs)
        IN /\ \E n \in 0..Len(pool.procs) :
                  pool'.procs \in {Take(pool.procs, n), Drop(pool.procs, Len(pool.procs) - n)}
           /\ \A p \in gone : ptab'[p].waits = ptab[p].waits + 1
           /\ \A p \in Range(pool'.procs) : ptab'[p] = ptab[p]
           /\ last'.res # Ok =>
                /\ Len(pool'.procs) < Len(pool.procs)
                /\ \E p \in gone :
                     /\ Reported(ptab', p, last'.res)
                     /\ \A q \in gone \ {p} : ptab'[q].st = Exited(0)
           /\ last'.res = Ok =>
                /\ pool'.procs = <<>>
                /\ \A p \in Tracked : ptab'[p].st = Exited(0)

C11_JoinUntilOk == [][C11_Step]_vars

\* two children, two joins that fail and the join that succeeds
C11_Witness ==
    /\ last.op = "join" /\ last.res = Ok /\ pool.procs = <<>>
    /\ calls = 5 /\ Len(ptab) = 2
    /\ \A p \in Children : ptab[p].waits = 1 /\ ptab[p].st \in FailOutcomes

\* C15: a get on a Limiting that tracks max_procs > 0 children waits on the
\* oldest tracked child and on no other and removes it; a child is spawned only
\* when that wait found exit code 0, and otherwise get returns what the wait
\* found and spawns nothing.
C15_Step ==
    ( /\ pool.kind = "Limiting" /\ pool.max_procs > 0
      /\ Len(pool.procs) = pool.max_procs
      /\ calls' = calls + 1 /\ last'.op = "get" ) =>
        LET old == Head(pool.procs)
        IN /\ \A p \in Tracked : old <= p
           /\ ptab'[old].waits = ptab[old].waits + 1
           /\ \A p \in Children \ {old} : ptab'[p] = ptab[p]
           /\ Len(ptab') > Len(ptab) => ptab'[old].st = Exited(0)
           /\ ptab'[old].st # Exited(0) =>
                /\ ptab' = [ptab EXCEPT ![old] = ptab'[old]]
                /\ Reported(ptab', old, last'.res)
                /\ pool'.procs = Tail(pool.procs)
           /\ last'.res = Ok =>
                /\ Len(ptab') = Len(ptab) + 1
                /\ pool'.procs = Append(Tail(pool.procs), Len(ptab'))
                /\ last'.ret = Len(ptab')

C15_EvictOldestFirst == [][C15_Step]_vars

\* a Limiting of two: the third get evicts child 1, the fourth finds child 2
\* exited with 1 and spawns nothing
C15_Witness ==
    /\ pool.kind = "Limiting" /\ pool.max_procs = 2
    /\ last.op = "get" /\ last.res = [kind |-> "NonZero", code |-> 1]
    /\ calls = 4 /\ Len(ptab) = 3 /\ pool.procs = <<3>>
    /\ ptab[1].st = Exited(0) /\ ptab[2].st = Exited(1) /\ ptab[3].waits = 0

\* C16: a child whose exit status has been collected is no longer tracked by a
\* pool that has not been dropped, and no kill, wait or try_wait is ever made on
\* it afterwards.
C16_NoSecondWait ==
    \A p \in Children :
        /\ ptab[p].late = 0
        /\ (ptab[p].st # Running /\ ~dropped) => p \notin Tracked

\* C19: after the same calls the Pool and the Limiting have returned the same
\* result, and track the same children but for those the Pool has already
\* reaped, which have exited with 0.
C19_SameAsLimiting ==
    /\ last.res = twin.last.res
    /\ Tracked \subseteq Range(twin.pool.procs)
    /\ \A p \in Range(twin.pool.procs) \ Tracked : ptab[p].st = Exited(0)

\* C20: a get of a bounded Rotating never indexes its queue out of range, and
\* the child it returns is tracked.
C20_CursorValid ==
    (pool.kind = "Rotating" /\ pool.max_procs > 0 /\ last.op = "get") =>
        /\ last.res.kind # "Panic"
        /\ last.res = Ok => last.ret \in Tracked

-----------------------------------------------------------------------------
(* Properties of xstream with its pool *)

ProcessFailures == {"NonZero", "Signal", "Wait"}

\* C12: when xstream has returned Ok, every child it acquired has been waited
\* on and has exited with 0 and none is tracked; a wait of the run that found a
\* child failed is the result of xstream, returned by the get or the join that
\* made it.
C12_OkMeansAllOk ==
    pc = "done" =>
        /\ result = Ok =>
             /\ pool.procs = <<>>
             /\ \A p \in Children : ptab[p].waits >= 1 /\ ptab[p].st = Exited(0)
        /\ \A p \in Children :
             (ptab[p].waits >= 1 /\ ptab[p].st # Exited(0)) =>
                 /\ Reported(ptab, p, result)
                 /\ last.op \in {"get", "join"} /\ last.res = result
        /\ result.kind \in ProcessFailures =>
             \E p \in Children : ptab[p].waits = 1 /\ Reported(ptab, p, result)

\* three children through a Limiting of one, two of them evicted by a get
C12_Witness ==
    /\ pc = "done" /\ result = Ok
    /\ pool.kind = "Limiting" /\ pool.max_procs = 1
    /\ Len(ptab) = 3 /\ gets = 3
    /\ Len(out) = 1

\* what one iteration of the inner loop writes when no write fails
IterationWrites ==
    LET f == fill_buf(buf, rest)
    IN Flatten(Writes(f.buf, Scan(f.buf, delim), delim, write_delim))

\* C13: the step in which a read, a write, the stdin of the child or pool.get
\* fails returns that failure and does nothing more (no get, write, consume or
\* join after the failing call), and nothing at all happens after it.
C13_Step ==
    /\ result # Ok => pc = "done" /\ UNCHANGED vars
    /\ (result = Ok /\ result' # Ok /\ last'.op # "join") =>
         /\ pc' = "done"
         /\ Consumed' = Consumed /\ hits' = hits
         /\ IF gets' # gets
            THEN /\ pc = "outer" /\ gets' = gets + 1 /\ last'.op = "get"
                 /\ out' = out /\ buf' = fill_buf(buf, rest).buf
                 /\ IF last'.res # Ok THEN result' = last'.res
                    ELSE result' = Err("StdinNotPiped")
                 /\ \A p \in Range(pool'.procs) : ptab'[p].waits = 0
            ELSE /\ UNCHANGED <<pool, ptab, cur, last>>
                 /\ result' \in {Err("Input"), Err("Output")}
                 /\ result' = Err("Input") => UNCHANGED <<out, buf, rest>>
                 /\ result' = Err("Output") =>
                      /\ pc = "inner"
                      /\ \E m \in 0..(Len(IterationWrites) - 1) :
                           out' = out \o Tagged(cur, Take(IterationWrites, m))

C13_FailFast == [][C13_Step]_vars

\* a write to the second child fails after another has given it a byte, with
\* input left unconsumed
C13_Witness ==
    /\ pc = "done" /\ result = Err("Output")
    /\ gets = 2 /\ cur = 2 /\ last.op = "get"
    /\ out # <<>> /\ Last(out).p = 2
    /\ Consumed < Len(input)
    /\ \A p \in Range(pool.procs) : ptab[p].waits = 0

\* C17: with a Limiting, when a byte is written to a child the stdin of every
\* child acquired before it is closed.
C17_ClosedBeforeNext ==
    (pool.kind = "Limiting" /\ out # <<>>) =>
        \A p \in Children : p < Last(out).p => ~ptab[p].stdin

\* C18: pool.get is called at the start of a segment only (every segment
\* before it has ended with a match) and only while input is left unconsumed;
\* every write is made within the segment of the last get, to the child that
\* get returned.
C18_Step ==
    /\ gets' # gets =>
         /\ gets' = gets + 1
         /\ gets = Len(hits)
         /\ Consumed < Len(input)
         /\ out' = out /\ Consumed' = Consumed
    /\ (out' # out \/ Consumed' # Consumed) =>
         /\ gets' = gets /\ gets = Len(hits) + 1
         /\ last.op = "get" /\ last.res = Ok /\ last' = last
         /\ \E n \in 0..Len(input) :
              /\ Len(out') = Len(out) + n
              /\ Take(out', Len(out)) = out
              /\ \A i \in (Len(out) + 1)..Len(out') : out'[i].p = last.ret

C18_OneGetPerSegment == [][C18_Step]_vars

\* three one-byte segments through a Rotating of two: the third goes to the
\* first child again
C18_Witness ==
    /\ Joined /\ pool.kind = "Rotating" /\ pool.max_procs = 2
    /\ gets = 3 /\ Len(hits) = 2 /\ ~write_delim.some
    /\ [i \in 1..Len(out) |-> out[i].p] = <<1, 2, 1>>

\* an iteration of the outer loop has consumed at least one byte: as many bytes
\* as iterations are consumed, but for the iteration under way
C21_Consumes ==
    /\ (pc = "outer" /\ result = Ok) => Consumed >= gets
    /\ pc = "inner" => Consumed >= gets - 1

\* an iteration of the inner loop that goes on has consumed at least one byte,
\* the first one of a segment finds bytes to consume, and one that consumes
\* nothing has found the input exhausted and ends the segment
C21_Step ==
    /\ (pc = "outer" /\ pc' = "inner") => buf' # <<>>
    /\ (pc = "inner" /\ pc' = "inner") => Consumed' > Consumed
    /\ (pc = "inner" /\ pc' = "outer") =>
         IF MoreInput THEN Consumed' > Consumed ELSE Consumed' = Consumed

\* C21: every iteration of the outer loop and every iteration of the inner loop
\* that does not end the segment consumes at least one byte, and xstream
\* reaches the join, unless a read, a write or pool.get has failed before.
C21_Progress ==
    /\ []C21_Consumes
    /\ [][C21_Step]_vars
    /\ <>(Joined \/ result # Ok)

\* three reads shorter than the delimiter, dumped one by one by the inner loop,
\* which ends on the exhausted input
C21_Witness ==
    /\ Joined /\ result = Ok
    /\ Len(chunks) = 3 /\ Len(delim) = 2
    /\ gets = 1 /\ hits = <<>> /\ Consumed = 3

-----------------------------------------------------------------------------
(* Properties of main.rs *)

\* C14: the result of the call that waited on a child tells what the wait found:
\* a failure with the exit code c # 0 of a child, another for a child ended by a
\* signal, a third for a wait that failed.
C14_FailureKinds ==
    last.op \in {"get", "join"} =>
        /\ last.res.kind = "NonZero" =>
             /\ last.res.code # 0
             /\ \E p \in Children : ptab[p].st = Exited(last.res.code)
        /\ last.res.kind = "Signal" => \E p \in Children : ptab[p].st = Signalled
        /\ last.res.kind = "Wait" => \E p \in Children : ptab[p].st = Running

\* C10: once cleanup has run, every child of the queue has been killed and
\* waited on.
C10_CleanupAll ==
    pc = "panic" =>
        \A p \in Range(pool.procs) : ptab[p].kills >= 1 /\ ptab[p].waits >= 1

====
